---- MODULE Spec2Model ----
(***************************************************************************)
(* The menu and order REST handlers of src/app.py over their two tables.   *)
(*                                                                         *)
(* Python and JSON values are strings: "pizza", "10", "True"; None (JSON   *)
(* null) is the string None below; a JSON array is a sequence; a JSON      *)
(* number inside an array of ids is written "#1" (IsPyStr tells it from a  *)
(* JSON string).  A JSON object is a record whose DOMAIN is the set of     *)
(* keys it carries, so a missing key is a key outside DOMAIN data.         *)
(*                                                                         *)
(* Spec     one request at a time, each handler run to its response.       *)
(* SpecConc update_menu_item requests of two server threads interleaved    *)
(*          between their read (query.get) and their commit.               *)
(***************************************************************************)
EXTENDS Integers, Sequences, FiniteSets, TLC

VARIABLES
    menu_item,        \* table menu_item: id -> row
    menu_item_seq,    \* next AUTO_INCREMENT id of menu_item
    food_order,       \* table food_order: id -> row
    food_order_seq,   \* next AUTO_INCREMENT id of food_order
    session,          \* thread -> the unit of work of its request in flight
    last,             \* the request answered last, with its response
    nreq              \* number of requests answered

vars == <<menu_item, menu_item_seq, food_order, food_order_seq, session, last, nreq>>

MaxRequests == 4

None == "None"

Threads == {"t1", "t2"}

Idle == [state |-> "idle"]

\* ------------------------------------------------------------------ schema

MenuKeys == {"name", "description", "price", "availability", "sold_count"}

\* nullable=False columns of MenuItem
MenuItemNotNull == {"name", "price"}

\* default= of the columns of MenuItem
MenuItemDefault == [availability |-> "True", sold_count |-> "0"]

OrderKeys == {"customer_name", "dish_ids", "total_price", "order_status"}

\* every column of FoodOrder is nullable=False
FoodOrderNotNull == OrderKeys

\* ------------------------------------------------------------------ inputs

B1 == [name |-> "pizza", description |-> "cheese", price |-> "10",
       availability |-> "True", sold_count |-> "0"]

MenuBodies ==
    { B1,
      [B1 EXCEPT !.price = "20"],
      [B1 EXCEPT !.name = "pasta"],
      [name |-> "pasta", description |-> None, price |-> "20",
       availability |-> "False", sold_count |-> "5"],
      [B1 EXCEPT !.name = None],
      [B1 EXCEPT !.availability = None, !.sold_count = None],
      [name |-> "pizza", description |-> "cheese", price |-> "10",
       availability |-> "True"],
      [price |-> "10"] }

O1 == [customer_name |-> "alice", dish_ids |-> <<"1", "2">>, total_price |-> "30"]

OrderBodies ==
    { O1,
      [customer_name |-> "bob", dish_ids |-> <<"1">>, total_price |-> "30",
       order_status |-> "delivered"],
      [O1 EXCEPT !.dish_ids = <<>>],
      [O1 EXCEPT !.dish_ids = <<"#1", "#2">>],
      [O1 EXCEPT !.total_price = None],
      [O1 EXCEPT !.customer_name = None],
      [O1 EXCEPT !.customer_name = ""],
      [customer_name |-> "", dish_ids |-> <<"#1", "#2">>, total_price |-> "30"],
      [customer_name |-> "", dish_ids |-> <<>>, total_price |-> "30"],
      [customer_name |-> "", total_price |-> "30"],
      [customer_name |-> "alice", total_price |-> "30"],
      [customer_name |-> "alice", dish_ids |-> <<"1", "2">>],
      [dish_ids |-> <<"1", "2">>, total_price |-> "30"] }

StatusBodies ==
    { [order_status |-> "preparing"],
      [order_status |-> "received"],
      [order_status |-> None],
      [note |-> "x"] }

PathIds == {1, 2}

PathNames == {"alice", "bob", "carol"}

PathStatuses == {"received", "preparing", "delivered"}

\* ---------------------------------------------------------------- database

DB == [menu_item |-> menu_item, menu_item_seq |-> menu_item_seq,
       food_order |-> food_order, food_order_seq |-> food_order_seq]

Ok(db) == [ok |-> TRUE, db |-> db, error |-> ""]

Fail(db, error) == [ok |-> FALSE, db |-> db, error |-> error]

Extend(table, id, row) == [i \in DOMAIN table \cup {id} |-> IF i = id THEN row ELSE table[i]]

Remove(table, id) == [i \in DOMAIN table \ {id} |-> table[i]]

\* INSERT of a MenuItem: the unit of work leaves a None attribute out of the
\* statement, so a column with a default takes it and another one gets NULL.
InsertMenuItem(db, obj) ==
    LET row == [c \in MenuKeys |->
                  IF obj[c] = None /\ c \in DOMAIN MenuItemDefault
                  THEN MenuItemDefault[c] ELSE obj[c]]
    IN IF \E c \in MenuItemNotNull : row[c] = None
       THEN Fail(db, "IntegrityError")
       ELSE Ok([db EXCEPT !.menu_item = Extend(db.menu_item, db.menu_item_seq, row),
                          !.menu_item_seq = db.menu_item_seq + 1])

\* UPDATE of a loaded MenuItem: SET names the attributes whose value differs
\* from the loaded one, WHERE names the primary key; no difference, no
\* statement; no row matched is StaleDataError.
UpdateMenuItem(db, id, loaded, current) ==
    LET changed == {c \in MenuKeys : current[c] # loaded[c]}
    IN IF changed = {} THEN Ok(db)
       ELSE IF id \notin DOMAIN db.menu_item THEN Fail(db, "StaleDataError")
       ELSE IF \E c \in changed \cap MenuItemNotNull : current[c] = None
       THEN Fail(db, "IntegrityError")
       ELSE Ok([db EXCEPT !.menu_item[id] =
                   [c \in MenuKeys |-> IF c \in changed THEN current[c] ELSE @[c]]])

\* mutant: the DELETE statement is never sent
DeleteMenuItemNotSent(db, id) == Ok(db)

DeleteMenuItem(db, id) ==
    Ok([db EXCEPT !.menu_item = Remove(db.menu_item, id)])

\* the driver writes a Python tuple (x,) as the SQL expression (x): the value x
TupleLiteral(t) == t[1]

\* INSERT of a FoodOrder
InsertFoodOrder(db, obj) ==
    LET row == [customer_name |-> obj.customer_name,
                dish_ids |-> TupleLiteral(obj.dish_ids),
                total_price |-> TupleLiteral(obj.total_price),
                order_status |-> obj.order_status]
    IN IF \E c \in FoodOrderNotNull : row[c] = None
       THEN Fail(db, "IntegrityError")
       ELSE Ok([db EXCEPT !.food_order = Extend(db.food_order, db.food_order_seq, row),
                          !.food_order_seq = db.food_order_seq + 1])

\* UPDATE of a loaded FoodOrder, as UpdateMenuItem
UpdateFoodOrder(db, id, loaded, current) ==
    LET changed == {c \in OrderKeys : current[c] # loaded[c]}
    IN IF changed = {} THEN Ok(db)
       ELSE IF id \notin DOMAIN db.food_order THEN Fail(db, "StaleDataError")
       ELSE IF \E c \in changed \cap FoodOrderNotNull : current[c] = None
       THEN Fail(db, "IntegrityError")
       ELSE Ok([db EXCEPT !.food_order[id] =
                   [c \in OrderKeys |-> IF c \in changed THEN current[c] ELSE @[c]]])

\* mutant: a commit that fails keeps what was flushed
CommitKeepsFlushed(db, flushed, dbfail) ==
    IF ~flushed.ok THEN Fail(db, flushed.error)
    ELSE IF dbfail THEN Fail(flushed.db, "OperationalError")
    ELSE flushed

\* db.session.commit(): the flushed statements become durable, or, when a
\* statement or the commit itself fails, the transaction leaves nothing.
Commit(db, flushed, dbfail) ==
    IF ~flushed.ok THEN Fail(db, flushed.error)
    ELSE IF dbfail THEN Fail(db, "OperationalError")
    ELSE flushed

\* ---------------------------------------------------------------- responses

Response(db, status, kind, message, items) ==
    [db |-> db, status |-> status,
     body |-> [kind |-> kind, message |-> message, items |-> items]]

Message(db, status, message) == Response(db, status, "message", message, <<>>)

Error(db, status, message) == Response(db, status, "error", message, <<>>)

\* an exception no handler catches: the framework answers 500
Unhandled(db, exception) == Response(db, 500, "exception", exception, <<>>)

RECURSIVE SortedIds(_)
SortedIds(S) ==
    IF S = {} THEN <<>>
    ELSE LET m == CHOOSE x \in S : \A y \in S : x <= y
         IN <<m>> \o SortedIds(S \ {m})

\* ------------------------------------------------------------ menu handlers

\* mutant: sold_count is not passed to MenuItem(...)
add_menu_item_without_sold_count(db, data, dbfail) ==
    IF ~(MenuKeys \subseteq DOMAIN data) THEN Error(db, 400, "KeyError")
    ELSE LET new_item == [c \in MenuKeys |-> IF c = "sold_count" THEN None ELSE data[c]]
             tx == Commit(db, InsertMenuItem(db, new_item), dbfail)
         IN IF tx.ok THEN Message(tx.db, 201, "Menu item added successfully")
            ELSE Error(tx.db, 400, tx.error)

add_menu_item(db, data, dbfail) ==
    IF ~(MenuKeys \subseteq DOMAIN data) THEN Error(db, 400, "KeyError")
    ELSE LET new_item == [c \in MenuKeys |-> data[c]]
             tx == Commit(db, InsertMenuItem(db, new_item), dbfail)
         IN IF tx.ok THEN Message(tx.db, 201, "Menu item added successfully")
            ELSE Error(tx.db, 400, tx.error)

get_menu_items(db) ==
    LET ids == SortedIds(DOMAIN db.menu_item)
    IN Response(db, 200, "list", "",
                [k \in 1..Len(ids) |->
                    [id |-> ids[k],
                     name |-> db.menu_item[ids[k]].name,
                     description |-> db.menu_item[ids[k]].description,
                     price |-> db.menu_item[ids[k]].price,
                     availability |-> db.menu_item[ids[k]].availability,
                     sold_count |-> db.menu_item[ids[k]].sold_count]])

\* mutant: the item is looked up before the body is read
update_menu_item_begin_lookup_first(db, item_id, data) ==
    IF item_id \notin DOMAIN db.menu_item
    THEN [done |-> TRUE, response |-> Error(db, 404, "Menu item not found")]
    ELSE IF ~(MenuKeys \subseteq DOMAIN data)
    THEN [done |-> TRUE, response |-> Error(db, 400, "KeyError")]
    ELSE [done |-> FALSE,
          loaded |-> db.menu_item[item_id],
          current |-> [c \in MenuKeys |-> data[c]]]

\* update_menu_item up to its commit: the response when it ends there, or
\* the loaded row with the five attributes assigned
update_menu_item_begin(db, item_id, data) ==
    IF ~(MenuKeys \subseteq DOMAIN data)
    THEN [done |-> TRUE, response |-> Error(db, 400, "KeyError")]
    ELSE IF item_id \notin DOMAIN db.menu_item
    THEN [done |-> TRUE, response |-> Error(db, 404, "Menu item not found")]
    ELSE [done |-> FALSE,
          loaded |-> db.menu_item[item_id],
          current |-> [c \in MenuKeys |-> data[c]]]

\* update_menu_item from its commit on
update_menu_item_commit(db, item_id, loaded, current, dbfail) ==
    LET tx == Commit(db, UpdateMenuItem(db, item_id, loaded, current), dbfail)
    IN IF tx.ok THEN Message(tx.db, 200, "Menu item updated successfully")
       ELSE Error(tx.db, 400, tx.error)

update_menu_item(db, item_id, data, dbfail) ==
    LET b == update_menu_item_begin(db, item_id, data)
    IN IF b.done THEN b.response
       ELSE update_menu_item_commit(db, item_id, b.loaded, b.current, dbfail)

delete_menu_item(db, item_id, dbfail) ==
    IF item_id \notin DOMAIN db.menu_item
    THEN Error(db, 404, "Menu item not found")
    ELSE LET tx == Commit(db, DeleteMenuItem(db, item_id), dbfail)
         IN IF tx.ok THEN Message(tx.db, 200, "Menu item deleted successfully")
            ELSE Error(tx.db, 400, tx.error)

\* ----------------------------------------------------------- order handlers

JsonNumbers == {"#1", "#2"}

IsPyStr(e) == e \notin JsonNumbers

\* sep.join(seq)
RECURSIVE Join(_, _)
Join(sep, seq) ==
    IF seq = <<>> THEN ""
    ELSE IF Len(seq) = 1 THEN seq[1]
    ELSE seq[1] \o sep \o Join(sep, Tail(seq))

\* not s, for s a str or None
PyNot(s) == s = "" \/ s = None

\* not t, for t a tuple
PyNotTuple(t) == Len(t) = 0

\* mutant: order_status is taken from the body when it carries one
create_order_status_from_body(db, data, dbfail) ==
    IF "dish_ids" \notin DOMAIN data THEN Unhandled(db, "KeyError")
    ELSE IF \E k \in 1..Len(data.dish_ids) : ~IsPyStr(data.dish_ids[k])
    THEN Unhandled(db, "TypeError")
    ELSE IF "customer_name" \notin DOMAIN data THEN Unhandled(db, "KeyError")
    ELSE IF "total_price" \notin DOMAIN data THEN Unhandled(db, "KeyError")
    ELSE LET dish_ids_str == Join(",", data.dish_ids)
             customer_name == data.customer_name
             dish_ids == <<dish_ids_str>>
             total_price == <<data.total_price>>
             order_status == IF "order_status" \in DOMAIN data
                             THEN data.order_status ELSE "received"
         IN IF PyNot(customer_name) \/ PyNotTuple(dish_ids)
            THEN Error(db, 400, "Customer name and item IDs are required")
            ELSE LET new_order == [customer_name |-> customer_name,
                                   dish_ids |-> dish_ids,
                                   total_price |-> total_price,
                                   order_status |-> order_status]
                     tx == Commit(db, InsertFoodOrder(db, new_order), dbfail)
                 IN IF tx.ok THEN Message(tx.db, 201, "Order created successfully")
                    ELSE Error(tx.db, 500, tx.error)

create_order(db, data, dbfail) ==
    IF "dish_ids" \notin DOMAIN data THEN Unhandled(db, "KeyError")
    ELSE IF \E k \in 1..Len(data.dish_ids) : ~IsPyStr(data.dish_ids[k])
    THEN Unhandled(db, "TypeError")
    ELSE IF "customer_name" \notin DOMAIN data THEN Unhandled(db, "KeyError")
    ELSE IF "total_price" \notin DOMAIN data THEN Unhandled(db, "KeyError")
    ELSE LET dish_ids_str == Join(",", data.dish_ids)
             customer_name == data.customer_name
             dish_ids == <<dish_ids_str>>
             total_price == <<data.total_price>>
             order_status == "received"
         IN IF PyNot(customer_name) \/ PyNotTuple(dish_ids)
            THEN Error(db, 400, "Customer name and item IDs are required")
            ELSE LET new_order == [customer_name |-> customer_name,
                                   dish_ids |-> dish_ids,
                                   total_price |-> total_price,
                                   order_status |-> order_status]
                     tx == Commit(db, InsertFoodOrder(db, new_order), dbfail)
                 IN IF tx.ok THEN Message(tx.db, 201, "Order created successfully")
                    ELSE Error(tx.db, 500, tx.error)

\* mutant: the new status is never assigned to the order
update_order_status_unassigned(db, order_id, data, dbfail) ==
    IF order_id \notin DOMAIN db.food_order THEN Error(db, 404, "Order not found")
    ELSE LET order == db.food_order[order_id]
             tx == Commit(db, UpdateFoodOrder(db, order_id, order, order), dbfail)
         IN IF tx.ok THEN Message(tx.db, 200, "Order status updated successfully")
            ELSE Error(tx.db, 500, "Failed to update order status")

update_order_status(db, order_id, data, dbfail) ==
    LET new_status == IF "order_status" \in DOMAIN data THEN data.order_status ELSE None
    IN IF order_id \notin DOMAIN db.food_order THEN Error(db, 404, "Order not found")
       ELSE LET order == db.food_order[order_id]
                tx == Commit(db, UpdateFoodOrder(db, order_id, order,
                                     [order EXCEPT !.order_status = new_status]), dbfail)
            IN IF tx.ok THEN Message(tx.db, 200, "Order status updated successfully")
               ELSE Error(tx.db, 500, "Failed to update order status")

\* the serialization both order queries share
OrdersData(db, ids) ==
    [k \in 1..Len(ids) |->
        [id |-> ids[k],
         customer_name |-> db.food_order[ids[k]].customer_name,
         order_status |-> db.food_order[ids[k]].order_status]]

\* mutant: the query is not filtered
get_orders_by_customer_unfiltered(db, customer_name) ==
    LET orders == SortedIds(DOMAIN db.food_order)
    IN IF orders = <<>> THEN Message(db, 200, "No orders found for this customer")
       ELSE Response(db, 200, "orders", "", OrdersData(db, orders))

get_orders_by_customer(db, customer_name) ==
    LET orders == SortedIds({i \in DOMAIN db.food_order :
                                db.food_order[i].customer_name = customer_name})
    IN IF orders = <<>> THEN Message(db, 200, "No orders found for this customer")
       ELSE Response(db, 200, "orders", "", OrdersData(db, orders))

get_orders_by_status(db, order_status) ==
    LET orders == IF order_status # None
                  THEN SortedIds({i \in DOMAIN db.food_order :
                                     db.food_order[i].order_status = order_status})
                  ELSE SortedIds(DOMAIN db.food_order)
    IN IF orders = <<>> THEN Message(db, 200, "No orders found with this status")
       ELSE Response(db, 200, "orders", "", OrdersData(db, orders))

\* ---------------------------------------------------------------- actions

NoData == [k \in {} |-> ""]

Answer(r, op, thread, id, arg, data) ==
    /\ menu_item' = r.db.menu_item
    /\ menu_item_seq' = r.db.menu_item_seq
    /\ food_order' = r.db.food_order
    /\ food_order_seq' = r.db.food_order_seq
    /\ last' = [op |-> op, thread |-> thread, id |-> id, arg |-> arg, data |-> data,
                status |-> r.status, body |-> r.body]
    /\ nreq' = nreq + 1

Init ==
    /\ menu_item = [i \in {} |-> B1]
    /\ menu_item_seq = 1
    /\ food_order = [i \in {} |-> O1]
    /\ food_order_seq = 1
    /\ session = [t \in Threads |-> Idle]
    /\ last = [op |-> "none", thread |-> "t1", id |-> 0, arg |-> "", data |-> NoData,
               status |-> 0, body |-> [kind |-> "none", message |-> "", items |-> <<>>]]
    /\ nreq = 0

\* the requests a thread has not begun are answered whole, in one step
Serve(t) == nreq < MaxRequests /\ session[t] = Idle /\ UNCHANGED session

AddMenuItem(t, data, dbfail) ==
    /\ Serve(t)
    /\ Answer(add_menu_item(DB, data, dbfail), "add_menu_item", t, 0, "", data)

GetMenuItems(t) ==
    /\ Serve(t)
    /\ Answer(get_menu_items(DB), "get_menu_items", t, 0, "", NoData)

UpdateMenuItemReq(t, item_id, data, dbfail) ==
    /\ Serve(t)
    /\ Answer(update_menu_item(DB, item_id, data, dbfail), "update_menu_item", t,
              item_id, "", data)

DeleteMenuItemReq(t, item_id, dbfail) ==
    /\ Serve(t)
    /\ Answer(delete_menu_item(DB, item_id, dbfail), "delete_menu_item", t,
              item_id, "", NoData)

CreateOrder(t, data, dbfail) ==
    /\ Serve(t)
    /\ Answer(create_order(DB, data, dbfail), "create_order", t, 0, "", data)

UpdateOrderStatus(t, order_id, data, dbfail) ==
    /\ Serve(t)
    /\ Answer(update_order_status(DB, order_id, data, dbfail), "update_order_status", t,
              order_id, "", data)

GetOrdersByCustomer(t, customer_name) ==
    /\ Serve(t)
    /\ Answer(get_orders_by_customer(DB, customer_name), "get_orders_by_customer", t,
              0, customer_name, NoData)

GetOrdersByStatus(t, order_status) ==
    /\ Serve(t)
    /\ Answer(get_orders_by_status(DB, order_status), "get_orders_by_status", t,
              0, order_status, NoData)

Next ==
    \/ \E data \in MenuBodies, dbfail \in BOOLEAN : AddMenuItem("t1", data, dbfail)
    \/ GetMenuItems("t1")
    \/ \E item_id \in PathIds, data \in MenuBodies, dbfail \in BOOLEAN :
          UpdateMenuItemReq("t1", item_id, data, dbfail)
    \/ \E item_id \in PathIds, dbfail \in BOOLEAN : DeleteMenuItemReq("t1", item_id, dbfail)
    \/ \E data \in OrderBodies, dbfail \in BOOLEAN : CreateOrder("t1", data, dbfail)
    \/ \E order_id \in PathIds, data \in StatusBodies, dbfail \in BOOLEAN :
          UpdateOrderStatus("t1", order_id, data, dbfail)
    \/ \E customer_name \in PathNames : GetOrdersByCustomer("t1", customer_name)
    \/ \E order_status \in PathStatuses : GetOrdersByStatus("t1", order_status)

Spec == Init /\ [][Next]_vars

\* ------------------------------------------------- two threads, interleaved

InFlight == Cardinality({t \in Threads : session[t] # Idle})

\* update_menu_item of thread t up to its commit: the row is read in the
\* thread's own session and transaction
UpdateMenuItemBegin(t, item_id, data) ==
    /\ session[t] = Idle
    /\ nreq + InFlight < MaxRequests
    /\ LET b == update_menu_item_begin(DB, item_id, data)
       IN IF b.done
          THEN /\ Answer(b.response, "update_menu_item", t, item_id, "", data)
               /\ UNCHANGED session
          ELSE /\ session' = [session EXCEPT ![t] =
                     [state |-> "dirty", item_id |-> item_id, data |-> data,
                      loaded |-> b.loaded, current |-> b.current]]
               /\ UNCHANGED <<menu_item, menu_item_seq, food_order, food_order_seq,
                              last, nreq>>

\* update_menu_item of thread t from its commit on
UpdateMenuItemCommit(t, dbfail) ==
    /\ session[t] # Idle
    /\ LET s == session[t]
       IN Answer(update_menu_item_commit(DB, s.item_id, s.loaded, s.current, dbfail),
                 "update_menu_item", t, s.item_id, "", s.data)
    /\ session' = [session EXCEPT ![t] = Idle]

NextConc ==
    \/ \E t \in Threads, data \in MenuBodies : AddMenuItem(t, data, FALSE)
    \/ \E t \in Threads, item_id \in PathIds : DeleteMenuItemReq(t, item_id, FALSE)
    \/ \E t \in Threads, item_id \in PathIds, data \in MenuBodies :
          UpdateMenuItemBegin(t, item_id, data)
    \/ \E t \in Threads, dbfail \in BOOLEAN : UpdateMenuItemCommit(t, dbfail)

SpecConc == Init /\ [][NextConc]_vars

\* ------------------------------------------------------------------ claims

\* this step answers a request of handler op
Answered(op) == nreq' = nreq + 1 /\ last'.op = op

Ids(items) == {items[k].id : k \in DOMAIN items}

ItemFields(item) == [c \in MenuKeys |-> item[c]]

Changed(table1, table2) ==
    {i \in DOMAIN table1 \cup DOMAIN table2 :
        \/ i \notin DOMAIN table1
        \/ i \notin DOMAIN table2
        \/ table1[i] # table2[i]}

\* the array of GET /menu holds one item with the five values `fields` under
\* an id no other item has and that was not listed in `before`, and every
\* item of `before` is still in it
ListsNew(items, fields, before) ==
    /\ \E k \in DOMAIN items :
          /\ ItemFields(items[k]) = fields
          /\ items[k].id \notin Ids(before)
          /\ \A j \in DOMAIN items : j # k => items[j].id # items[k].id
    /\ \A j \in DOMAIN before : \E k \in DOMAIN items : items[k] = before[j]

\* C1 as claimed: a 201 of POST /menu/add with all five keys is followed by
\* a GET /menu that lists an item with exactly the five values of the body,
\* under a fresh id, beside the items listed before, unchanged.
C1_AddedItemListedAsSent ==
    [][ /\ (Answered("add_menu_item") /\ last'.status = 201
            /\ MenuKeys \subseteq DOMAIN last'.data)
           => ListsNew(get_menu_items(DB').body.items, ItemFields(last'.data),
                       get_menu_items(DB).body.items)
        /\ (last.op = "add_menu_item" /\ last.status = 201 /\ Answered("get_menu_items"))
           => /\ last'.status = 200
              /\ ListsNew(last'.body.items, ItemFields(last.data), <<>>) ]_vars

\* the five values as the columns store them: a null availability becomes
\* true and a null sold_count becomes 0
Stored(data) ==
    [c \in MenuKeys |->
        IF data[c] # None THEN data[c]
        ELSE IF c = "availability" THEN "True"
        ELSE IF c = "sold_count" THEN "0"
        ELSE None]

\* C1 as amended: the item listed carries the five values of the body, a
\* null availability listed as true and a null sold_count as 0; fresh id and
\* the earlier items as claimed.
C1_AddedItemListedAsStored ==
    [][ /\ (Answered("add_menu_item") /\ last'.status = 201
            /\ MenuKeys \subseteq DOMAIN last'.data)
           => ListsNew(get_menu_items(DB').body.items, Stored(last'.data),
                       get_menu_items(DB).body.items)
        /\ (last.op = "add_menu_item" /\ last.status = 201 /\ Answered("get_menu_items"))
           => /\ last'.status = 200
              /\ ListsNew(last'.body.items, Stored(last.data), <<>>) ]_vars

\* C1 witness: an add sent with a null availability and a null sold_count
\* is answered 201 while the menu already holds another item
C1_Witness ==
    /\ last.op = "add_menu_item"
    /\ last.status = 201
    /\ last.data.availability = None
    /\ last.data.sold_count = None
    /\ Cardinality(DOMAIN menu_item) = 2

\* C2 as claimed: PUT /menu/update/{id} for an id not in the table answers
\* 404 and changes neither table, whatever the body.
C2_UpdateMissingIs404 ==
    [][ (Answered("update_menu_item") /\ last'.id \notin DOMAIN menu_item)
        => /\ last'.status = 404
           /\ menu_item' = menu_item
           /\ food_order' = food_order ]_vars

\* C2 as amended: for an id not in the table the answer is 404 when the body
\* carries all five keys and 400 when it lacks one; neither table changes.
C2_UpdateMissingIs404Or400 ==
    [][ (Answered("update_menu_item") /\ last'.id \notin DOMAIN menu_item)
        => /\ last'.status = IF MenuKeys \subseteq DOMAIN last'.data THEN 404 ELSE 400
           /\ menu_item' = menu_item
           /\ food_order' = food_order ]_vars

\* C2 witness: an update of an id that was never added is answered 404 while
\* the menu holds another item
C2_Witness ==
    /\ last.op = "update_menu_item"
    /\ last.status = 404
    /\ last.id >= menu_item_seq
    /\ DOMAIN menu_item # {}

\* the answer of a handler whose commit met a database failure
DatabaseFailed(l) == l.body.kind = "error" /\ l.body.message = "OperationalError"

\* C3: DELETE /menu/delete/{id} of an existing id answers 200 (the database
\* not failing), the item is then gone from the table and from GET /menu and
\* every other item is unchanged; the same DELETE again, with no request in
\* between, answers 404 and changes nothing.
C3_DeleteTwice ==
    [][ /\ (Answered("delete_menu_item") /\ last'.id \in DOMAIN menu_item)
           => \/ last'.status = 200
              \/ last'.status = 400 /\ DatabaseFailed(last')
        /\ (Answered("delete_menu_item") /\ last'.status = 200)
           => /\ last'.id \in DOMAIN menu_item
              /\ Changed(menu_item, menu_item') = {last'.id}
              /\ last'.id \notin DOMAIN menu_item'
              /\ last'.id \notin Ids(get_menu_items(DB').body.items)
              /\ food_order' = food_order
        /\ (last.op = "delete_menu_item" /\ last.status = 200
            /\ Answered("get_menu_items"))
           => last.id \notin Ids(last'.body.items)
        /\ (last.op = "delete_menu_item" /\ last.status = 200
            /\ Answered("delete_menu_item") /\ last'.id = last.id)
           => /\ last'.status = 404
              /\ menu_item' = menu_item
              /\ food_order' = food_order ]_vars

\* C3 witness: a DELETE answered 404 for an id that had been added, another
\* item still being there
C3_Witness ==
    /\ last.op = "delete_menu_item"
    /\ last.status = 404
    /\ last.id < menu_item_seq
    /\ DOMAIN menu_item # {}

\* C4 as claimed: POST /orders with an empty customer_name answers 400 and
\* adds no row, whatever dish_ids and total_price are.
C4_EmptyCustomerIs400 ==
    [][ (Answered("create_order") /\ "customer_name" \in DOMAIN last'.data
         /\ last'.data.customer_name = "")
        => /\ last'.status = 400
           /\ food_order' = food_order ]_vars

\* C5 as claimed: POST /orders with a non-empty customer_name and dish_ids
\* missing or empty answers 400 and persists no row.
C5_NoDishIdsIs400 ==
    [][ (Answered("create_order") /\ "customer_name" \in DOMAIN last'.data
         /\ ~PyNot(last'.data.customer_name)
         /\ ("dish_ids" \in DOMAIN last'.data => last'.data.dish_ids = <<>>))
        => /\ last'.status = 400
           /\ food_order' = food_order ]_vars

\* C6: a 200 of PUT /orders/{id} with order_status s leaves that order with
\* status s and every other order as it was; GET /orders/status/s then
\* lists the id and GET /orders/status/t, t # s the status before, does not.
C6_StatusUpdateVisible ==
    [][ /\ (Answered("update_order_status") /\ last'.status = 200)
           => LET id == last'.id
                  s == last'.data.order_status
                  t == food_order[id].order_status
              IN /\ id \in DOMAIN food_order
                 /\ food_order' = [food_order EXCEPT ![id].order_status = s]
                 /\ id \in Ids(get_orders_by_status(DB', s).body.items)
                 /\ t # s => id \notin Ids(get_orders_by_status(DB', t).body.items)
        /\ (last.op = "update_order_status" /\ last.status = 200
            /\ Answered("get_orders_by_status"))
           => /\ last'.status = 200
              /\ last'.arg = last.data.order_status => last.id \in Ids(last'.body.items)
              /\ last'.arg # last.data.order_status => last.id \notin Ids(last'.body.items)
      ]_vars

\* C6 witness: GET /orders/status/preparing lists one of two orders, the
\* other one still received
C6_Witness ==
    /\ last.op = "get_orders_by_status"
    /\ last.arg = "preparing"
    /\ Len(last.body.items) = 1
    /\ \E i \in DOMAIN food_order : food_order[i].order_status = "received"

\* C7: GET /orders/customer/{name} answers 200 and changes no row; with no
\* order of exactly that customer_name the body is a message without a
\* list, otherwise it lists exactly the orders of that customer_name, each
\* as id, customer_name and order_status.
C7_OrdersOfCustomer ==
    [][ Answered("get_orders_by_customer")
        => LET match == {i \in DOMAIN food_order :
                            food_order[i].customer_name = last'.arg}
               items == last'.body.items
           IN /\ last'.status = 200
              /\ menu_item' = menu_item
              /\ food_order' = food_order
              /\ match = {} => last'.body.kind = "message" /\ items = <<>>
              /\ match # {} =>
                    /\ last'.body.kind = "orders"
                    /\ Len(items) = Cardinality(match)
                    /\ Ids(items) = match
                    /\ \A k \in DOMAIN items :
                          items[k] = [id |-> items[k].id,
                                      customer_name |-> last'.arg,
                                      order_status |-> food_order[items[k].id].order_status]
      ]_vars

\* C7 witness: the orders of one customer listed while another customer has
\* an order too
C7_Witness ==
    /\ last.op = "get_orders_by_customer"
    /\ last.body.kind = "orders"
    /\ Len(last.body.items) = 2
    /\ Cardinality(DOMAIN food_order) = 3

\* C8: a 201 of POST /orders adds exactly one row, under a new id, with
\* order_status "received" whatever the body carries, the other rows being
\* unchanged; a row that is "received" stays so in every step that is not a
\* 200 of PUT /orders/{id} on its own id.
C8_CreatedOrderIsReceived ==
    [][ /\ (Answered("create_order") /\ last'.status = 201)
           => \E new \in DOMAIN food_order' \ DOMAIN food_order :
                 /\ Changed(food_order, food_order') = {new}
                 /\ food_order'[new].order_status = "received"
                 /\ food_order'[new].customer_name = last'.data.customer_name
        /\ Cardinality(DOMAIN food_order') > Cardinality(DOMAIN food_order)
           => Answered("create_order") /\ last'.status = 201
        /\ \A i \in DOMAIN food_order :
              (food_order[i].order_status = "received"
               /\ (i \notin DOMAIN food_order' \/ food_order'[i].order_status # "received"))
              => (Answered("update_order_status") /\ last'.id = i /\ last'.status = 200)
      ]_vars

\* C8 witness: the same create answered 201 twice, giving two equal rows
\* under two ids, with a third order created from a body carrying an
\* order_status key
C8_Witness ==
    /\ last.op = "create_order"
    /\ last.status = 201
    /\ \E i, j \in DOMAIN food_order : i # j /\ food_order[i] = food_order[j]
    /\ \E i \in DOMAIN food_order : food_order[i].customer_name = "bob"

\* C9 as claimed: when two PUT /menu/update/{id} of two threads for the same
\* item are both answered 200, one right after the other, the stored row is
\* the full payload of one of them.
C9_LastWriterWins ==
    [][ (/\ last.op = "update_menu_item" /\ last.status = 200
         /\ Answered("update_menu_item") /\ last'.status = 200
         /\ last'.id = last.id
         /\ last'.thread # last.thread
         /\ session[last'.thread] # Idle
         /\ last.id \in DOMAIN menu_item')
        => menu_item'[last.id] \in {ItemFields(last.data), ItemFields(last'.data)} ]_vars

\* C10: a request answered 400, 404 or 500 leaves both tables as they were,
\* and a request answered otherwise changes at most the one row it names
\* (the row it inserts, or the row of its id), so no change of an earlier,
\* failed request is persisted with it.
C10_FailureLeavesTables ==
    [][ nreq' = nreq + 1 =>
        /\ last'.status \in {400, 404, 500}
           => menu_item' = menu_item /\ food_order' = food_order
        /\ last'.op \in {"add_menu_item", "update_menu_item", "delete_menu_item"}
           => /\ food_order' = food_order
              /\ Changed(menu_item, menu_item') \subseteq
                    (IF last'.op = "add_menu_item" THEN {menu_item_seq} ELSE {last'.id})
        /\ last'.op \in {"create_order", "update_order_status"}
           => /\ menu_item' = menu_item
              /\ Changed(food_order, food_order') \subseteq
                    (IF last'.op = "create_order" THEN {food_order_seq} ELSE {last'.id})
        /\ last'.op \in {"get_menu_items", "get_orders_by_customer", "get_orders_by_status"}
           => menu_item' = menu_item /\ food_order' = food_order
        /\ (last'.op = "add_menu_item" /\ menu_item' # menu_item)
           => menu_item'[menu_item_seq].name = last'.data.name
        /\ (last'.op = "create_order" /\ food_order' # food_order)
           => food_order'[food_order_seq].customer_name = last'.data.customer_name
      ]_vars

\* C10 witness: a PUT /orders/{id} of an existing order is answered 500,
\* its commit having failed, while the menu holds an item
C10_Witness ==
    /\ last.op = "update_order_status"
    /\ last.status = 500
    /\ last.id \in DOMAIN food_order
    /\ DOMAIN menu_item # {}

====
